---------------------------- MODULE Spec2Model ----------------------------
(***************************************************************************)
(* A model of altium_renamer.py: the placeholder resolver, the parameter   *)
(* extractor, the descriptor locator, the rename orchestrator and its      *)
(* DocumentPath rewrite pass.                                              *)
(*                                                                         *)
(* A Python string is a sequence of tokens.  A token is one character      *)
(* ("[", "]", "X", " ", the path separator "\\") or one of the fixed       *)
(* literals the code tests for as a whole ("Name=", "Value=",              *)
(* "DocumentPath=", "[Parameter1]", ".PrjPcb", ".PrjHar").  Lines are held *)
(* without their line terminator.  Paths follow the Windows rules of       *)
(* os.path (the script is a Windows Explorer context-menu tool), with one  *)
(* separator token.                                                        *)
(***************************************************************************)
EXTENDS Naturals, Sequences, FiniteSets, TLC

VARIABLES
    \* ---- resolver (generate_new_filename) applied to drawn inputs
    resolver_template,      \* old_filename_template
    resolver_parameters,    \* the parameter map handed to the resolver
    result,                 \* <<>> before the call, then <<[new_filename, missing_params]>>
    \* ---- extractor (extract_parameters_from_project_file), line by line
    text,                   \* the lines of the project file
    pos,                    \* number of lines the loop has consumed
    parameters,             \* the map built so far
    current_parameter_name, \* the pending name; <<>> stands for None
    \* ---- reference rewrite pass applied to drawn inputs
    lines,                  \* the descriptor's lines as read
    files_renamed_map,      \* original filename -> new filename
    updated_lines,          \* <<>> before the pass, then <<the lines it produced>>
    \* ---- the directory and a run of rename_files_and_update_project
    files,                  \* path of each regular file -> its lines
    dirs,                   \* paths of the subdirectories
    pc,                     \* "start", "self_rename", "loop", "rewrite", "done"
    run,                    \* number of the run in progress
    project_file_path,
    original_project_file_basename,
    project_file_new_basename,
    all_extracted_parameters,
    current_files_on_disk,  \* the entries of the listing the loop has yet to visit
    \* ---- what the run has done so far (its console reports, in effect)
    listing,                \* os.listdir(directory) as taken before the loop
    events,                 \* set of [name, outcome]: how each visited entry ended
    gate,                   \* how locating and self-renaming the descriptor ended
    before,                 \* [files, dirs] when the run began
    after_first             \* [files, dirs] when the first run ended

resolverVars == <<resolver_template, resolver_parameters, result>>
extractorVars == <<text, pos, parameters, current_parameter_name>>
rewriteVars == <<lines, files_renamed_map, updated_lines>>
runVars == <<pc, run, project_file_path, original_project_file_basename,
             project_file_new_basename, all_extracted_parameters,
             current_files_on_disk, listing, events, gate, before, after_first>>
vars == <<resolverVars, extractorVars, rewriteVars, files, dirs, runVars>>

\* The variables of a part the specification at hand does not exercise.
ResolverIdle ==
    /\ resolver_template = <<>>
    /\ resolver_parameters = <<>>
    /\ result = <<>>

ExtractorIdle ==
    /\ text = <<>>
    /\ pos = 0
    /\ parameters = <<>>
    /\ current_parameter_name = <<>>

RewriteIdle ==
    /\ lines = <<>>
    /\ files_renamed_map = <<>>
    /\ updated_lines = <<>>

NoTree == [files |-> <<>>, dirs |-> {}]

RunLocalsReset ==
    /\ project_file_path = <<>>
    /\ original_project_file_basename = <<>>
    /\ project_file_new_basename = <<>>
    /\ all_extracted_parameters = <<>>
    /\ current_files_on_disk = {}
    /\ listing = {}
    /\ events = {}
    /\ gate = "pending"

OrchestratorIdle ==
    /\ files = <<>>
    /\ dirs = {}
    /\ pc = "done"
    /\ run = 0
    /\ RunLocalsReset
    /\ before = NoTree
    /\ after_first = NoTree

(***************************************************************************)
(* Strings                                                                 *)
(***************************************************************************)
LB == "["
RB == "]"
Sep == "\\"
Space == " "

\* All sequences over alphabet S of length at most n.
RECURSIVE SeqsUpTo(_, _)
SeqsUpTo(S, n) ==
    IF n = 0 THEN {<<>>}
    ELSE LET shorter == SeqsUpTo(S, n - 1)
         IN  shorter \cup {Append(s, c) : s \in {t \in shorter : Len(t) = n - 1}, c \in S}

Drop(s, k) == SubSeq(s, k + 1, Len(s))

StartsWith(s, p) == Len(p) <= Len(s) /\ SubSeq(s, 1, Len(p)) = p

\* str.replace(old, new): every non-overlapping occurrence, left to right.
RECURSIVE Replace(_, _, _)
Replace(s, old, new) ==
    IF old = <<>> \/ Len(s) < Len(old) THEN s
    ELSE IF StartsWith(s, old) THEN new \o Replace(Drop(s, Len(old)), old, new)
    ELSE <<Head(s)>> \o Replace(Tail(s), old, new)

\* re.findall(r'(\[.*?\])', s): the bracketed spans, left to right, each
\* ending at the first closing bracket after its opening bracket.
RECURSIVE FindAllSpans(_)
FindAllSpans(s) ==
    IF s = <<>> THEN <<>>
    ELSE LET closers == {j \in 2..Len(s) : s[j] = RB}
         IN  IF Head(s) = LB /\ closers # {}
             THEN LET j == CHOOSE k \in closers : \A m \in closers : k <= m
                  IN  <<SubSeq(s, 1, j)>> \o FindAllSpans(Drop(s, j))
             ELSE FindAllSpans(Tail(s))

\* placeholder[1:-1]
Inner(span) == SubSeq(span, 2, Len(span) - 1)

\* get_placeholder_parameters_from_filename: re.findall(r'\[(.*?)\]', filename)
get_placeholder_parameters_from_filename(filename) ==
    LET spans == FindAllSpans(filename)
    IN  [i \in 1..Len(spans) |-> Inner(spans[i])]

\* The loop of generate_new_filename over the placeholders still to visit.
RECURSIVE ResolveLoop(_, _, _, _)
ResolveLoop(placeholders, new_filename, missing_params, params) ==
    IF placeholders = <<>>
    THEN [new_filename |-> new_filename, missing_params |-> missing_params]
    ELSE LET placeholder == Head(placeholders)
             param_name  == Inner(placeholder)
         IN  IF param_name \in DOMAIN params
             THEN ResolveLoop(Tail(placeholders),
                              Replace(new_filename, placeholder, params[param_name]),
                              missing_params, params)
             ELSE ResolveLoop(Tail(placeholders), new_filename,
                              Append(missing_params, param_name), params)

generate_new_filename(old_filename_template, params) ==
    ResolveLoop(FindAllSpans(old_filename_template), old_filename_template, <<>>, params)

(***************************************************************************)
(* Parameter extractor                                                     *)
(***************************************************************************)
NameKey == "Name="
ValueKey == "Value="
BlockHeader == "[Parameter1]"
DocumentPathKey == "DocumentPath="

\* str.strip(): leading and trailing whitespace removed.
RECURSIVE LStrip(_)
LStrip(s) == IF s # <<>> /\ Head(s) = Space THEN LStrip(Tail(s)) ELSE s

RECURSIVE RStrip(_)
RStrip(s) ==
    IF s # <<>> /\ s[Len(s)] = Space THEN RStrip(SubSeq(s, 1, Len(s) - 1)) ELSE s

Strip(s) == RStrip(LStrip(s))

\* re.match(r'\[Parameter\d+\]', line)
IsHeaderLine(line) == line # <<>> /\ Head(line) = BlockHeader

\* re.match(r'Name=(.+)', line): at least one character after the key.
IsNameLine(line) == Len(line) >= 2 /\ Head(line) = NameKey

\* re.match(r'Value=(.+)', line)
IsValueLine(line) == Len(line) >= 2 /\ Head(line) = ValueKey

\* match.group(1).strip()
Group1(line) == Strip(Tail(line))

\* A mutation of the loop body: the pending name survives the pairing.
ExtractLineKeepsPending(st, raw) ==
    LET line == Strip(raw)
    IN  IF IsHeaderLine(line) THEN [st EXCEPT !.current_parameter_name = <<>>]
        ELSE IF IsNameLine(line)
             THEN [st EXCEPT !.current_parameter_name = Group1(line)]
        ELSE IF IsValueLine(line) /\ st.current_parameter_name # <<>>
             THEN [st EXCEPT !.parameters =
                      [n \in DOMAIN st.parameters \cup {st.current_parameter_name} |->
                          IF n = st.current_parameter_name THEN Group1(line)
                          ELSE st.parameters[n]]]
        ELSE st

\* One iteration of the loop of extract_parameters_from_project_file.
ExtractLine(st, raw) ==
    LET line == Strip(raw)
    IN  IF IsHeaderLine(line) THEN [st EXCEPT !.current_parameter_name = <<>>]
        ELSE IF IsNameLine(line)
             THEN [st EXCEPT !.current_parameter_name = Group1(line)]
        ELSE IF IsValueLine(line) /\ st.current_parameter_name # <<>>
             THEN [parameters |->
                      [n \in DOMAIN st.parameters \cup {st.current_parameter_name} |->
                          IF n = st.current_parameter_name THEN Group1(line)
                          ELSE st.parameters[n]],
                   current_parameter_name |-> <<>>]
        ELSE st

ExtractStart == [parameters |-> <<>>, current_parameter_name |-> <<>>]

RECURSIVE ExtractFrom(_, _)
ExtractFrom(st, content) ==
    IF content = <<>> THEN st
    ELSE ExtractFrom(ExtractLine(st, Head(content)), Tail(content))

\* extract_parameters_from_project_file on a readable file with these lines.
extract_parameters_from_project_file(content) ==
    ExtractFrom(ExtractStart, content).parameters

(***************************************************************************)
(* The extractor on drawn inputs, one line per step                        *)
(***************************************************************************)
MaxExtractLines == 5

ExtractLineSet ==
    { <<BlockHeader>>,
      <<NameKey, "X">>,
      <<Space, NameKey, Space, "Y", Space>>,
      <<ValueKey, "1">>,
      <<ValueKey, Space, "2">>,
      <<ValueKey>>,
      <<DocumentPathKey, "X">> }

InitExtract ==
    /\ text \in SeqsUpTo(ExtractLineSet, MaxExtractLines)
    /\ pos = 0
    /\ parameters = <<>>
    /\ current_parameter_name = <<>>
    /\ ResolverIdle
    /\ RewriteIdle
    /\ OrchestratorIdle

ExtractStep ==
    /\ pos < Len(text)
    /\ LET st == ExtractLine([parameters |-> parameters,
                              current_parameter_name |-> current_parameter_name],
                             text[pos + 1])
       IN  /\ parameters' = st.parameters
           /\ current_parameter_name' = st.current_parameter_name
    /\ pos' = pos + 1
    /\ UNCHANGED <<text, resolverVars, rewriteVars, files, dirs, runVars>>

NextExtract == ExtractStep

SpecExtract == InitExtract /\ [][NextExtract]_vars

(***************************************************************************)
(* The resolver on drawn inputs                                            *)
(***************************************************************************)
MaxTemplateLen == 6

TemplateAlphabet == {LB, RB, "X", "Y"}

ExampleTemplate == <<LB, "X", RB, "_", LB, "Y", RB, ".ext">>

Templates == SeqsUpTo(TemplateAlphabet, MaxTemplateLen) \cup {ExampleTemplate}

ResolverNames == {<<"X">>, <<"Y">>}

ResolverValues == {<<"1">>, <<"2">>, <<LB, "Y", RB>>, <<"a", LB, "X", RB>>}

ResolverMaps ==
    UNION {[D -> ResolverValues] : D \in SUBSET ResolverNames}

InitResolve ==
    /\ resolver_template \in Templates
    /\ resolver_parameters \in ResolverMaps
    /\ result = <<>>
    /\ ExtractorIdle
    /\ RewriteIdle
    /\ OrchestratorIdle

Resolve ==
    /\ result = <<>>
    /\ result' = <<generate_new_filename(resolver_template, resolver_parameters)>>
    /\ UNCHANGED <<resolver_template, resolver_parameters, extractorVars, rewriteVars,
                   files, dirs, runVars>>

NextResolve == Resolve

SpecResolve == InitResolve /\ [][NextResolve]_vars

(***************************************************************************)
(* Reference rewrite pass                                                  *)
(***************************************************************************)
\* os.path.basename: what follows the last separator.
RECURSIVE Basename(_)
Basename(path) ==
    IF \E i \in 1..Len(path) : path[i] = Sep
    THEN Basename(Drop(path, CHOOSE i \in 1..Len(path) : path[i] = Sep))
    ELSE path

\* A mutation of the loop body: the key test is lost, so any line whose last
\* path component is a renamed file is rebuilt.
RewriteLineAnyKey(line, renamed) ==
    LET stripped == Strip(line)
        path_part == IF stripped = <<>> THEN <<>> ELSE Tail(stripped)
        current_filename_in_path == Basename(path_part)
    IN  IF /\ current_filename_in_path \in DOMAIN renamed
           /\ renamed[current_filename_in_path] # <<>>
           /\ renamed[current_filename_in_path] # current_filename_in_path
        THEN <<DocumentPathKey>> \o
             Replace(path_part, current_filename_in_path,
                     renamed[current_filename_in_path])
        ELSE line

\* The body of the loop over the descriptor's lines: modified_line for line.
RewriteLine(line, renamed) ==
    LET stripped == Strip(line)
    IN  IF StartsWith(stripped, <<DocumentPathKey>>)
        THEN LET path_part == Tail(stripped)
                 current_filename_in_path == Basename(path_part)
             IN  IF /\ current_filename_in_path \in DOMAIN renamed
                    /\ renamed[current_filename_in_path] # <<>>
                    /\ renamed[current_filename_in_path] # current_filename_in_path
                 THEN <<DocumentPathKey>> \o
                      Replace(path_part, current_filename_in_path,
                              renamed[current_filename_in_path])
                 ELSE line
        ELSE line

RewriteLines(content, renamed) ==
    [i \in 1..Len(content) |-> RewriteLine(content[i], renamed)]

\* changes_made_in_content once the loop is over
ChangesMade(content, renamed) ==
    \E i \in 1..Len(content) :
        Strip(RewriteLine(content[i], renamed)) # Strip(content[i])

(***************************************************************************)
(* The rewrite pass on drawn inputs                                        *)
(***************************************************************************)
MaxRewriteLines == 2

TemplateX == <<LB, "X", RB>>
TemplateY == <<LB, "Y", RB>>

RewriteLineSet ==
    { <<DocumentPathKey>> \o TemplateX,
      <<DocumentPathKey, "d", Sep>> \o TemplateX,
      <<DocumentPathKey>> \o TemplateX \o <<Sep>> \o TemplateX,
      <<DocumentPathKey, "a">> \o TemplateX \o <<Sep>> \o TemplateX,
      <<Space, DocumentPathKey>> \o TemplateX \o <<Space>>,
      <<DocumentPathKey>> \o TemplateY,
      <<DocumentPathKey, "1">>,
      <<DocumentPathKey>>,
      <<NameKey>> \o TemplateX,
      <<"Other=", "d", Sep>> \o TemplateX,
      <<Space>>,
      <<BlockHeader>> }

RenameMaps ==
    { (TemplateX :> <<"1">>),
      (TemplateY :> <<"2">>),
      (TemplateX :> <<"1">>) @@ (TemplateY :> <<"2">>),
      (TemplateX :> <<"1">> \o TemplateX) }

InitRewrite ==
    /\ lines \in SeqsUpTo(RewriteLineSet, MaxRewriteLines)
    /\ files_renamed_map \in RenameMaps
    /\ updated_lines = <<>>
    /\ ResolverIdle
    /\ ExtractorIdle
    /\ OrchestratorIdle

RewritePass ==
    /\ updated_lines = <<>>
    /\ updated_lines' = <<RewriteLines(lines, files_renamed_map)>>
    /\ UNCHANGED <<lines, files_renamed_map, resolverVars, extractorVars,
                   files, dirs, runVars>>

NextRewrite == RewritePass

SpecRewrite == InitRewrite /\ [][NextRewrite]_vars

(***************************************************************************)
(* The directory                                                           *)
(*                                                                         *)
(* A path is relative to the directory the script was started on; a path   *)
(* without a separator is an entry of that directory.  os.rename raises    *)
(* OSError when the target's parent directory does not exist; the code     *)
(* treats any other cause of OSError the same way.                         *)
(***************************************************************************)
HasSep(path) == \E i \in 1..Len(path) : path[i] = Sep

\* os.path.exists
Exists(fs, path) == path \in DOMAIN fs.files \/ path \in fs.dirs

\* os.path.isfile
IsFile(fs, path) == path \in DOMAIN fs.files

\* os.listdir(directory)
ListDir(fs) == {path \in DOMAIN fs.files \cup fs.dirs : ~HasSep(path)}

\* The directory a path lies in; <<>> is the directory itself.
Parent(path) ==
    LET prefix == SubSeq(path, 1, Len(path) - Len(Basename(path)))
    IN  IF prefix = <<>> THEN <<>> ELSE SubSeq(prefix, 1, Len(prefix) - 1)

RenameRaises(fs, old, new) ==
    \/ ~Exists(fs, old)
    \/ Parent(new) # <<>> /\ Parent(new) \notin fs.dirs

\* The tree after a successful os.rename(old, new) of a regular file.
Renamed(fs, old, new) ==
    [fs EXCEPT !.files =
        [path \in (DOMAIN fs.files \ {old}) \cup {new} |->
            IF path = new THEN fs.files[old] ELSE fs.files[path]]]

\* The lines open(path).readlines() gives, when the open succeeds.
Readable(fs, path) == path \in DOMAIN fs.files

\* extract_parameters_from_project_file(path): an unreadable path gives {}.
ParametersOf(fs, path) ==
    IF Readable(fs, path) THEN extract_parameters_from_project_file(fs.files[path])
    ELSE <<>>

(***************************************************************************)
(* Descriptor locator                                                      *)
(***************************************************************************)
project_extensions == {".PrjPcb", ".PrjHar", ".PrjMbd"}

\* filename.endswith(project_extensions)
IsProjectName(filename) ==
    filename # <<>> /\ filename[Len(filename)] \in project_extensions

\* A mutation of the locator: with several project files it returns one.
get_project_file_any(entries) ==
    LET found_project_files == {f \in entries : IsProjectName(f)}
    IN  IF found_project_files = {} THEN [path |-> <<>>, error |-> "none"]
        ELSE [path |-> CHOOSE f \in found_project_files : TRUE, error |-> ""]

get_project_file(entries) ==
    LET found_project_files == {f \in entries : IsProjectName(f)}
    IN  IF found_project_files = {} THEN [path |-> <<>>, error |-> "none"]
        ELSE IF Cardinality(found_project_files) > 1
             THEN [path |-> <<>>, error |-> "multiple"]
        ELSE [path |-> CHOOSE f \in found_project_files : TRUE, error |-> ""]

(***************************************************************************)
(* Rename orchestrator                                                     *)
(***************************************************************************)
Tree == [files |-> files, dirs |-> dirs]

\* A mutation of the test on missing_params in the loop: never taken.
SkipsForMissingNever(missing_params) == FALSE

\* "if missing_params:" in the loop over the directory entries
SkipsForMissing(missing_params) == missing_params # <<>>

\* A mutation of the loop's error handling: a failed rename ends the loop.
AfterEntryStopOnError(outcome, remaining) ==
    IF outcome = "failed" \/ remaining = {} THEN "rewrite" ELSE "loop"

\* Where the loop stands after an entry: every branch of the body, the
\* except clause included, goes on to the next entry of the listing.
AfterEntry(outcome, remaining) ==
    IF remaining = {} THEN "rewrite" ELSE "loop"

\* Step 1: get_project_file and its error return.
Locate ==
    /\ pc = "start"
    /\ LET located == get_project_file(ListDir(Tree))
       IN  IF located.error # ""
           THEN /\ gate' = "fatal_" \o located.error
                /\ pc' = "done"
                /\ UNCHANGED project_file_path
           ELSE /\ project_file_path' = located.path
                /\ pc' = "self_rename"
                /\ UNCHANGED gate
    /\ UNCHANGED <<resolverVars, extractorVars, rewriteVars, files, dirs, run,
                   original_project_file_basename, project_file_new_basename,
                   all_extracted_parameters, current_files_on_disk, listing,
                   events, before, after_first>>

\* The descriptor's own name: resolve it, rename the file or abort, then
\* extract the parameters again and list the directory.
SelfRename ==
    /\ pc = "self_rename"
    /\ LET original == Basename(project_file_path)
           resolved == generate_new_filename(original,
                                             ParametersOf(Tree, project_file_path))
           new_path == Parent(project_file_path) \o resolved.new_filename
           fatal ==
               IF resolved.new_filename = original THEN ""
               ELSE IF resolved.missing_params # <<>> THEN "fatal_missing"
               ELSE IF Exists(Tree, new_path) /\ new_path # project_file_path
                    THEN "fatal_collision"
               ELSE IF RenameRaises(Tree, project_file_path, new_path)
                    THEN "fatal_oserror"
               ELSE ""
           tree == IF resolved.new_filename = original \/ fatal # "" THEN Tree
                   ELSE Renamed(Tree, project_file_path, new_path)
           path == IF resolved.new_filename = original \/ fatal # ""
                   THEN project_file_path ELSE new_path
       IN  /\ original_project_file_basename' = original
           /\ project_file_new_basename' = resolved.new_filename
           /\ files' = tree.files
           /\ IF fatal # ""
              THEN /\ gate' = fatal
                   /\ pc' = "done"
                   /\ UNCHANGED <<project_file_path, all_extracted_parameters,
                                  listing, current_files_on_disk, events>>
              ELSE /\ gate' = "passed"
                   /\ project_file_path' = path
                   /\ all_extracted_parameters' = ParametersOf(tree, path)
                   /\ listing' = ListDir(tree)
                   /\ current_files_on_disk' = ListDir(tree)
                   /\ events' = IF path = project_file_path THEN events
                                ELSE events \cup {[name |-> original,
                                                   outcome |-> "project_renamed"]}
                   /\ pc' = IF ListDir(tree) = {} THEN "rewrite" ELSE "loop"
    /\ UNCHANGED <<resolverVars, extractorVars, rewriteVars, dirs, run, before,
                   after_first>>

\* One iteration of the loop over current_files_on_disk; os.listdir gives the
\* entries in no particular order.
ProcessEntry ==
    /\ pc = "loop"
    /\ \E filename_on_disk \in current_files_on_disk :
        LET resolved == generate_new_filename(filename_on_disk, all_extracted_parameters)
            new_filename_candidate == resolved.new_filename
            outcome ==
                IF ~IsFile(Tree, filename_on_disk) THEN "not_a_file"
                ELSE IF \/ filename_on_disk = project_file_path
                        \/ /\ project_file_new_basename # original_project_file_basename
                           /\ filename_on_disk = original_project_file_basename
                     THEN "project_file"
                ELSE IF get_placeholder_parameters_from_filename(filename_on_disk) = <<>>
                     THEN "no_placeholder"
                ELSE IF SkipsForMissing(resolved.missing_params) THEN "missing"
                ELSE IF new_filename_candidate = filename_on_disk THEN "same_name"
                ELSE IF /\ Exists(Tree, new_filename_candidate)
                        /\ new_filename_candidate # filename_on_disk
                     THEN "collision"
                ELSE IF RenameRaises(Tree, filename_on_disk, new_filename_candidate)
                     THEN "failed"
                ELSE "renamed"
            remaining == current_files_on_disk \ {filename_on_disk}
        IN  /\ events' = events \cup {[name |-> filename_on_disk, outcome |-> outcome]}
            /\ current_files_on_disk' = remaining
            /\ pc' = AfterEntry(outcome, remaining)
            /\ IF outcome = "renamed"
               THEN /\ files' = Renamed(Tree, filename_on_disk,
                                        new_filename_candidate).files
                    /\ files_renamed_map' =
                          [f \in DOMAIN files_renamed_map \cup {filename_on_disk} |->
                              IF f = filename_on_disk
                              THEN Basename(new_filename_candidate)
                              ELSE files_renamed_map[f]]
               ELSE UNCHANGED <<files, files_renamed_map>>
    /\ UNCHANGED <<resolverVars, extractorVars, lines, updated_lines, dirs, run,
                   project_file_path, original_project_file_basename,
                   project_file_new_basename, all_extracted_parameters, listing,
                   gate, before, after_first>>

\* Step 2: the descriptor's own pair joins the map, and unless the map is
\* empty the descriptor is read, its reference lines are rebuilt and, if one
\* changed, the file is written back.
RewriteReferences ==
    /\ pc = "rewrite"
    /\ LET renamed ==
               IF original_project_file_basename # project_file_new_basename
               THEN [f \in DOMAIN files_renamed_map \cup {original_project_file_basename} |->
                        IF f = original_project_file_basename
                        THEN project_file_new_basename
                        ELSE files_renamed_map[f]]
               ELSE files_renamed_map
           writes == /\ DOMAIN renamed # {}
                     /\ Readable(Tree, project_file_path)
                     /\ ChangesMade(files[project_file_path], renamed)
       IN  /\ files_renamed_map' = renamed
           /\ files' = IF writes
                       THEN [files EXCEPT ![project_file_path] =
                                RewriteLines(files[project_file_path], renamed)]
                       ELSE files
    /\ pc' = "done"
    /\ UNCHANGED <<resolverVars, extractorVars, lines, updated_lines, dirs, run,
                   project_file_path, original_project_file_basename,
                   project_file_new_basename, all_extracted_parameters,
                   current_files_on_disk, listing, events, gate, before,
                   after_first>>

(***************************************************************************)
(* Runs of the orchestrator on drawn directories                           *)
(***************************************************************************)
MaxRuns == 2
MaxDescriptors == 2
MaxFiles == 2
MaxDocLines == 1

TemplateXZ == <<LB, "X", RB, LB, "Z", RB>>
SubDir == <<"d">>

DescriptorNames ==
    { <<"p", ".PrjPcb">>,
      TemplateX \o <<".PrjPcb">>,
      <<LB, "Z", RB, ".PrjHar">>,
      TemplateXZ \o <<".PrjMbd">> }

OtherNames == {TemplateX, TemplateY, <<"1">>, TemplateXZ}

DirNames == {SubDir, TemplateY}

InsideSubDir == {SubDir \o <<Sep, "1">>, SubDir \o <<Sep, "1", ".PrjPcb">>}

\* <<>> stands for a parameter the descriptor does not define.
XValues == {<<>>, <<"1">>, TemplateY, SubDir \o <<Sep, "1">>}
YValues == {<<>>, <<"1">>}

DocLineSet ==
    { <<DocumentPathKey>> \o TemplateX,
      <<DocumentPathKey>> \o SubDir \o <<Sep>> \o TemplateY }

ParameterBlock(name, value) ==
    IF value = <<>> THEN <<>>
    ELSE << <<BlockHeader>>, <<NameKey>> \o name, <<ValueKey>> \o value >>

DescriptorContents ==
    { ParameterBlock(<<"X">>, xv) \o ParameterBlock(<<"Y">>, yv) \o docs :
        xv \in XValues, yv \in YValues, docs \in SeqsUpTo(DocLineSet, MaxDocLines) }

AtMost(S, n) == {T \in SUBSET S : Cardinality(T) <= n}

InitialTrees ==
    { [files |-> [path \in descriptors \cup others \cup inside |->
                     IF path \in descriptors THEN content ELSE <<>>],
       dirs  |-> subdirs] :
        descriptors \in AtMost(DescriptorNames, MaxDescriptors),
        others \in AtMost(OtherNames, MaxFiles),
        subdirs \in SUBSET DirNames,
        inside \in AtMost(InsideSubDir, 1),
        content \in DescriptorContents }

Init ==
    /\ \E tree \in InitialTrees :
          /\ tree.dirs \cap DOMAIN tree.files = {}
          /\ (\E path \in DOMAIN tree.files : HasSep(path)) => SubDir \in tree.dirs
          /\ files = tree.files
          /\ dirs = tree.dirs
          /\ before = tree
    /\ after_first = NoTree
    /\ pc = "start"
    /\ run = 1
    /\ RunLocalsReset
    /\ ResolverIdle
    /\ ExtractorIdle
    /\ RewriteIdle

\* The script is started again on the same directory.
NextRun ==
    /\ pc = "done"
    /\ run \in 1..(MaxRuns - 1)
    /\ run' = run + 1
    /\ pc' = "start"
    /\ before' = Tree
    /\ after_first' = IF run = 1 THEN Tree ELSE after_first
    /\ project_file_path' = <<>>
    /\ original_project_file_basename' = <<>>
    /\ project_file_new_basename' = <<>>
    /\ all_extracted_parameters' = <<>>
    /\ current_files_on_disk' = {}
    /\ listing' = {}
    /\ events' = {}
    /\ gate' = "pending"
    /\ files_renamed_map' = <<>>
    /\ UNCHANGED <<resolverVars, extractorVars, lines, updated_lines, files, dirs>>

Next == Locate \/ SelfRename \/ ProcessEntry \/ RewriteReferences \/ NextRun

Spec == Init /\ [][Next]_vars

(***************************************************************************)
(* Properties                                                              *)
(***************************************************************************)

\* What C7 says of line k of t: it is a Value= line and some Name= line
\* before it is followed, up to k, by no block header and by no
\* entry-producing Value= line.
RECURSIVE ProducesEntry(_, _)
ProducesEntry(t, k) ==
    /\ IsValueLine(Strip(t[k]))
    /\ \E j \in 1..(k - 1) :
          /\ IsNameLine(Strip(t[j]))
          /\ \A m \in (j + 1)..(k - 1) :
                ~IsHeaderLine(Strip(t[m])) /\ ~ProducesEntry(t, m)

\* The name of the last Name= line among the first n lines of t.
LastNameWithin(t, n) ==
    LET js == {j \in 1..n : IsNameLine(Strip(t[j]))}
        j  == CHOOSE x \in js : \A y \in js : y <= x
    IN  Group1(Strip(t[j]))

PendingAfter(t, n) ==
    IF \E j \in 1..n :
          /\ IsNameLine(Strip(t[j]))
          /\ \A m \in (j + 1)..n : ~IsHeaderLine(Strip(t[m])) /\ ~ProducesEntry(t, m)
    THEN LastNameWithin(t, n)
    ELSE <<>>

PairingsWithin(t, n) == {k \in 1..n : ProducesEntry(t, k)}

MapAfter(t, n) ==
    LET ks == PairingsWithin(t, n)
        last(name) == CHOOSE k \in ks :
                         /\ LastNameWithin(t, k - 1) = name
                         /\ \A m \in ks : LastNameWithin(t, m - 1) = name => m <= k
    IN  [name \in {LastNameWithin(t, k - 1) : k \in ks} |-> Group1(Strip(t[last(name)]))]

\* C7: after any number of lines, the map holds exactly the pairings of the
\* Value= lines that had a pending name (set by a Name= line since the last
\* block header and since the last entry-producing Value= line), each name
\* with the value of its last pairing, and a pairing clears the pending name.
C7_PendingNamePairing ==
    /\ parameters = MapAfter(text, pos)
    /\ current_parameter_name = PendingAfter(text, pos)

\* C7 witness: the whole text is read, one name was paired twice with
\* different values, and a Value= line without a pending name was ignored.
C7_Witness ==
    /\ pos = Len(text)
    /\ \E k1, k2 \in PairingsWithin(text, pos) :
          /\ k1 < k2
          /\ LastNameWithin(text, k1 - 1) = LastNameWithin(text, k2 - 1)
          /\ Group1(Strip(text[k1])) # Group1(Strip(text[k2]))
    /\ \E k \in 1..pos : IsValueLine(Strip(text[k])) /\ ~ProducesEntry(text, k)

\* The substitution C8 describes: every span of the template whose name is
\* a key gives way to that key's value, every other span and all text outside
\* the spans stay, and inserted text is not looked at again.
RECURSIVE SubstituteSpans(_, _)
SubstituteSpans(s, params) ==
    IF s = <<>> THEN <<>>
    ELSE LET closers == {j \in 2..Len(s) : s[j] = RB}
         IN  IF Head(s) = LB /\ closers # {}
             THEN LET j == CHOOSE k \in closers : \A m \in closers : k <= m
                      span == SubSeq(s, 1, j)
                  IN  (IF Inner(span) \in DOMAIN params THEN params[Inner(span)] ELSE span)
                      \o SubstituteSpans(Drop(s, j), params)
             ELSE <<Head(s)>> \o SubstituteSpans(Tail(s), params)

\* C8: the resolver returns the template with each span whose name is a key
\* replaced by that key's value and each other span untouched, inserted text
\* not being altered by another substitution; the missing list is empty when
\* every span's name is a key.
C8_ResolverResult ==
    result # <<>> =>
        /\ result[1].new_filename = SubstituteSpans(resolver_template, resolver_parameters)
        /\ (\A i \in 1..Len(FindAllSpans(resolver_template)) :
               Inner(FindAllSpans(resolver_template)[i]) \in DOMAIN resolver_parameters)
           => result[1].missing_params = <<>>

\* The directory prefix of a path value: what precedes its filename component.
DirPrefix(path) == SubSeq(path, 1, Len(path) - Len(Basename(path)))

\* C5: a line beginning with DocumentPath= whose filename component is a key
\* of the rename map becomes DocumentPath=, the unchanged directory prefix,
\* and the mapped new filename.
C5_ReferenceRewrite ==
    updated_lines # <<>> =>
        \A i \in 1..Len(lines) :
            LET path == Strip(Tail(lines[i]))
            IN  (StartsWith(lines[i], <<DocumentPathKey>>)
                   /\ Basename(path) \in DOMAIN files_renamed_map)
                => updated_lines[1][i] =
                      <<DocumentPathKey>> \o DirPrefix(path)
                          \o files_renamed_map[Basename(path)]

\* C6 as stated: a line that does not begin with DocumentPath=, or whose
\* filename component is not in the rename map, is the same line in the same
\* position after the pass, and the number of lines is unchanged.
C6_FrameAsStated ==
    updated_lines # <<>> =>
        /\ Len(updated_lines[1]) = Len(lines)
        /\ \A i \in 1..Len(lines) :
              (\/ ~StartsWith(lines[i], <<DocumentPathKey>>)
               \/ Basename(Strip(Tail(lines[i]))) \notin DOMAIN files_renamed_map)
              => updated_lines[1][i] = lines[i]

\* C6 amended: a line that, leading and trailing whitespace aside, does not
\* begin with DocumentPath=, or whose filename component is not in the rename
\* map, is the same line in the same position after the pass, and the number
\* of lines is unchanged.
C6_FrameOfStrippedLines ==
    updated_lines # <<>> =>
        /\ Len(updated_lines[1]) = Len(lines)
        /\ \A i \in 1..Len(lines) :
              LET stripped == Strip(lines[i])
              IN  (\/ ~StartsWith(stripped, <<DocumentPathKey>>)
                   \/ Basename(Tail(stripped)) \notin DOMAIN files_renamed_map)
                  => updated_lines[1][i] = lines[i]

\* C6 witness: the pass has rewritten one line and left alone a line without
\* the key that names a renamed file.
C6_Witness ==
    /\ updated_lines # <<>>
    /\ \E i, j \in 1..Len(lines) :
          /\ updated_lines[1][i] # lines[i]
          /\ ~StartsWith(Strip(lines[j]), <<DocumentPathKey>>)
          /\ Basename(Tail(lines[j])) \in DOMAIN files_renamed_map
          /\ updated_lines[1][j] = lines[j]

\* The project files the locator had to choose from when the run began.
DescriptorsBefore == {f \in ListDir(before) : IsProjectName(f)}

\* The parameter map of the one descriptor the run began with.
ParametersBefore ==
    ParametersOf(before, CHOOSE d \in DescriptorsBefore : TRUE)

PlaceholderNames(filename) ==
    {get_placeholder_parameters_from_filename(filename)[i] :
        i \in 1..Len(get_placeholder_parameters_from_filename(filename))}

Unresolvable(filename) ==
    \E name \in PlaceholderNames(filename) : name \notin DOMAIN ParametersBefore

Outcomes(kinds) == {e \in events : e.outcome \in kinds}

\* C1: a file has left its original name in this run only if there was one
\* descriptor and every placeholder name in the file's on-disk name is a key
\* of the parameter map extracted from it; a file with an unresolvable
\* placeholder is still there under its name.
C1_NoPartialResolutionCommitted ==
    \A f \in DOMAIN before.files :
        f \notin DOMAIN files =>
            /\ Cardinality(DescriptorsBefore) = 1
            /\ ~Unresolvable(Basename(f))

\* C1 witness: the run is over, one entry with an unresolvable placeholder
\* was visited and kept its name, and another entry was renamed.
C1_Witness ==
    /\ pc = "done"
    /\ Cardinality(DescriptorsBefore) = 1
    /\ \E f \in DOMAIN before.files \cap DOMAIN files :
          /\ Unresolvable(f)
          /\ PlaceholderNames(f) \cap DOMAIN ParametersBefore # {}
          /\ [name |-> f, outcome |-> "missing"] \in events
    /\ \E g \in DOMAIN before.files : g \notin DOMAIN files

\* C2: when the one descriptor's own filename holds a placeholder that the
\* parameter map extracted from it does not define, the run changes nothing:
\* no file is renamed and the descriptor's content is not rewritten.
C2_UnresolvedDescriptorNameAborts ==
    (/\ Cardinality(DescriptorsBefore) = 1
     /\ \E d \in DescriptorsBefore : Unresolvable(d))
    => Tree = before

\* C3: an entry whose resolved name already existed when it was visited is
\* still there under its original name and is no key of the rename map, no
\* file of the tree is lost, and the directory has as many entries as when
\* the run began.
C3_CollisionSafety ==
    /\ \A e \in Outcomes({"collision"}) :
          /\ e.name \in DOMAIN files
          /\ e.name \notin DOMAIN files_renamed_map
    /\ Cardinality(DOMAIN files) = Cardinality(DOMAIN before.files)
    /\ Cardinality(ListDir(Tree)) = Cardinality(ListDir(before))

\* C4: in a second run the directory listing and the descriptor's content
\* stay what they were when the first run ended.
C4_SecondRunChangesNothing ==
    run >= 2 => Tree = after_first

\* C9: once an entry was skipped for missing parameters, for a collision or
\* for a failed rename, the loop still visits every entry of the listing, the
\* rewrite step still rebuilds the reference lines that name a renamed file,
\* and no entry whose rename failed is a key of the rename map.
C9_RecoverableConditionsContinue ==
    Outcomes({"missing", "collision", "failed"}) # {} =>
        /\ pc \in {"loop", "rewrite", "done"}
        /\ pc = "loop" => current_files_on_disk # {}
        /\ listing \subseteq {e.name : e \in events} \cup current_files_on_disk
        /\ pc \in {"rewrite", "done"} => listing \subseteq {e.name : e \in events}
        /\ \A e \in Outcomes({"failed"}) :
              e.name \in DOMAIN files /\ e.name \notin DOMAIN files_renamed_map
        /\ pc = "done" =>
              LET old == before.files[CHOOSE d \in DescriptorsBefore : TRUE]
                  new == files[project_file_path]
              IN  /\ Len(new) = Len(old)
                  /\ \A i \in 1..Len(old), e \in Outcomes({"renamed"}) :
                        (/\ StartsWith(Strip(old[i]), <<DocumentPathKey>>)
                         /\ Basename(Tail(Strip(old[i]))) = e.name)
                        => new[i] # old[i]

\* C9 witness: the run is over, one rename failed, another succeeded, and
\* the reference line naming the renamed file was rebuilt.
C9_Witness ==
    /\ pc = "done"
    /\ Outcomes({"failed"}) # {}
    /\ \E e \in Outcomes({"renamed"}) :
          \E i \in 1..Len(files[project_file_path]) :
              /\ Basename(Tail(Strip(before.files[CHOOSE d \in DescriptorsBefore : TRUE][i])))
                     = e.name
              /\ files[project_file_path][i]
                     # before.files[CHOOSE d \in DescriptorsBefore : TRUE][i]

\* C10: with no or several project files, with the descriptor's resolved
\* name already taken, or with the descriptor's rename refused, the run ends
\* with the tree as it began; and no other file is renamed and no content is
\* rewritten unless exactly one project file was found and the self-rename
\* step ended without such a condition.
C10_FatalConditionsGate ==
    /\ Cardinality(DescriptorsBefore) # 1 => Tree = before
    /\ gate \in {"fatal_none", "fatal_multiple", "fatal_collision", "fatal_oserror"}
           => pc = "done" /\ Tree = before
    /\ (Cardinality(DescriptorsBefore) = 1 /\ pc \notin {"start", "self_rename"}) =>
           LET d == CHOOSE f \in DescriptorsBefore : TRUE
               resolved == generate_new_filename(d, ParametersBefore)
               target == resolved.new_filename
           IN  (/\ target # d
                /\ resolved.missing_params = <<>>
                /\ \/ Exists(before, target)
                   \/ Parent(target) # <<>> /\ Parent(target) \notin before.dirs)
               => pc = "done" /\ Tree = before
    /\ (\/ \E f \in DOMAIN before.files \ DescriptorsBefore : f \notin DOMAIN files
        \/ \E f \in DOMAIN before.files \cap DOMAIN files : files[f] # before.files[f]
        \/ \E f \in DOMAIN files \ DOMAIN before.files : files[f] # <<>> /\
               files[f] # before.files[CHOOSE d \in DescriptorsBefore : TRUE])
       => /\ Cardinality(DescriptorsBefore) = 1
          /\ gate = "passed"
          /\ pc \in {"loop", "rewrite", "done"}

\* C10 witness: the run has stopped because the descriptor's resolved name
\* was already taken.
C10_Witness ==
    /\ pc = "done"
    /\ gate = "fatal_collision"
    /\ Cardinality(DescriptorsBefore) = 1

=============================================================================
